---- MODULE Spec2Model ----
(***************************************************************************)
(* A model of SimpleSQLEngine (src/sql_engine.py): the in-memory table     *)
(* store, load_csv with its type inference, parse_query, the condition     *)
(* evaluator and execute_query.                                            *)
(*                                                                         *)
(* Python strings are TLA+ strings, handled character by character with    *)
(* Len, SubSeq and \o.  Python values are records                          *)
(*     [t |-> "int" | "float" | "str", n, e, s]                            *)
(* where an int is n (e = 0), a float is the decimal n / 10^e in lowest    *)
(* form, and a str is s.  Floats are exact decimals: the engine never does *)
(* arithmetic on them, it only parses, truncates and compares.             *)
(*                                                                         *)
(* A method is written as a chain of operators, one per step of its body,  *)
(* each taking the values the earlier steps computed under the names the   *)
(* code gives them.                                                        *)
(***************************************************************************)
EXTENDS Integers, Sequences, FiniteSets, TLC

VARIABLES table_data, out

vars == <<table_data, out>>

(***************************************************************************)
(* Characters and the str methods the engine uses.                         *)
(***************************************************************************)
\* the printable ASCII characters 32..95 and 97..126, in code order
AsciiLow == " !\"#$%&'()*+,-./0123456789:;<=>?@ABCDEFGHIJKLMNOPQRSTUVWXYZ[\\]^_"

AsciiHigh == "abcdefghijklmnopqrstuvwxyz{|}~"

Ch(s, i) == SubSeq(s, i, i)

\* ord(c)
Ord(c) ==
    IF \E i \in 1..Len(AsciiLow) : Ch(AsciiLow, i) = c
    THEN 31 + (CHOOSE i \in 1..Len(AsciiLow) : Ch(AsciiLow, i) = c)
    ELSE 96 + (CHOOSE i \in 1..Len(AsciiHigh) : Ch(AsciiHigh, i) = c)

\* str.upper and str.lower, letter by letter
UpperOf ==
    [a |-> "A", b |-> "B", c |-> "C", d |-> "D", e |-> "E", f |-> "F", g |-> "G", h |-> "H",
     i |-> "I", j |-> "J", k |-> "K", l |-> "L", m |-> "M", n |-> "N", o |-> "O", p |-> "P",
     q |-> "Q", r |-> "R", s |-> "S", t |-> "T", u |-> "U", v |-> "V", w |-> "W", x |-> "X",
     y |-> "Y", z |-> "Z"]

LowerOf ==
    [A |-> "a", B |-> "b", C |-> "c", D |-> "d", E |-> "e", F |-> "f", G |-> "g", H |-> "h",
     I |-> "i", J |-> "j", K |-> "k", L |-> "l", M |-> "m", N |-> "n", O |-> "o", P |-> "p",
     Q |-> "q", R |-> "r", S |-> "s", T |-> "t", U |-> "u", V |-> "v", W |-> "w", X |-> "x",
     Y |-> "y", Z |-> "z"]

DigitOf == [c \in {"0", "1", "2", "3", "4", "5", "6", "7", "8", "9"} |-> Ord(c) - 48]

IsSpace(c) == c = " "

IsDigit(c) == c \in DOMAIN DigitOf

\* the regular expression class \w
IsWord(c) == c \in DOMAIN DigitOf \cup DOMAIN UpperOf \cup DOMAIN LowerOf \cup {"_"}

IsQuote(c) == c \in {"'", "\""}

UpperCh(c) == IF c \in DOMAIN UpperOf THEN UpperOf[c] ELSE c

LowerCh(c) == IF c \in DOMAIN LowerOf THEN LowerOf[c] ELSE c

RECURSIVE upper(_)
upper(s) == IF s = "" THEN "" ELSE UpperCh(Ch(s, 1)) \o upper(SubSeq(s, 2, Len(s)))

RECURSIVE lower(_)
lower(s) == IF s = "" THEN "" ELSE LowerCh(Ch(s, 1)) \o lower(SubSeq(s, 2, Len(s)))

RECURSIVE lstrip(_)
lstrip(s) == IF s # "" /\ IsSpace(Ch(s, 1)) THEN lstrip(SubSeq(s, 2, Len(s))) ELSE s

RECURSIVE rstrip(_)
rstrip(s) == IF s # "" /\ IsSpace(Ch(s, Len(s))) THEN rstrip(SubSeq(s, 1, Len(s) - 1)) ELSE s

strip(s) == rstrip(lstrip(s))

startswith(s, p) == Len(s) >= Len(p) /\ SubSeq(s, 1, Len(p)) = p

endswith(s, p) == Len(s) >= Len(p) /\ SubSeq(s, Len(s) - Len(p) + 1, Len(s)) = p

\* s.find(sub, i - 1) + 1: the first position from i on where sub occurs in
\* s, 0 when it does not
RECURSIVE findfrom(_, _, _)
findfrom(s, sub, i) ==
    IF i + Len(sub) - 1 > Len(s) THEN 0
    ELSE IF SubSeq(s, i, i + Len(sub) - 1) = sub THEN i
    ELSE findfrom(s, sub, i + 1)

find(s, sub) == findfrom(s, sub, 1)

\* sub in s
contains(s, sub) == find(s, sub) # 0

\* s cut in two around the occurrence of sep at position i
cut(s, sep, i) ==
    IF i = 0 THEN <<s>> ELSE <<SubSeq(s, 1, i - 1), SubSeq(s, i + Len(sep), Len(s))>>

\* s.split(sep, 1)
split1(s, sep) == cut(s, sep, find(s, sep))

\* s.replace(old, '', 1)
remove1(s, old) == IF contains(s, old) THEN split1(s, old)[1] \o split1(s, old)[2] ELSE s

\* s.split(sep)
RECURSIVE splitsep(_, _)
splitsep(s, sep) ==
    IF contains(s, sep) THEN <<split1(s, sep)[1]>> \o splitsep(split1(s, sep)[2], sep) ELSE <<s>>

\* the length of the longest prefix of s whose characters are not whitespace
RECURSIVE tokenlen(_)
tokenlen(s) == IF s = "" \/ IsSpace(Ch(s, 1)) THEN 0 ELSE 1 + tokenlen(SubSeq(s, 2, Len(s)))

\* s.split(): the whitespace-delimited tokens of s
RECURSIVE splitws(_)
splitws(s) ==
    IF lstrip(s) = "" THEN <<>>
    ELSE <<SubSeq(lstrip(s), 1, tokenlen(lstrip(s)))>>
         \o splitws(SubSeq(lstrip(s), tokenlen(lstrip(s)) + 1, Len(lstrip(s))))

\* ' '.join(parts)
RECURSIVE joinsp(_)
joinsp(parts) ==
    IF parts = <<>> THEN ""
    ELSE IF Len(parts) = 1 THEN parts[1]
    ELSE parts[1] \o " " \o joinsp(Tail(parts))

\* whether every character of s is a decimal digit
AllDigits(s) == \A i \in 1..Len(s) : IsDigit(Ch(s, i))

Range(f) == {f[x] : x \in DOMAIN f}

(***************************************************************************)
(* Python values, int() and float().                                       *)
(***************************************************************************)
IntV(k) == [t |-> "int", n |-> k, e |-> 0, s |-> ""]

StrV(x) == [t |-> "str", n |-> 0, e |-> 0, s |-> x]

\* the float k / 10^d, in lowest form
RECURSIVE FloatV(_, _)
FloatV(k, d) ==
    IF d > 0 /\ k % 10 = 0 THEN FloatV(k \div 10, d - 1)
    ELSE [t |-> "float", n |-> k, e |-> d, s |-> ""]

IsNum(v) == v.t \in {"int", "float"}

RECURSIVE Pow10(_)
Pow10(d) == IF d = 0 THEN 1 ELSE 10 * Pow10(d - 1)

\* the value of a run of decimal digits
RECURSIVE DigitsVal(_)
DigitsVal(s) ==
    IF s = "" THEN 0 ELSE 10 * DigitsVal(SubSeq(s, 1, Len(s) - 1)) + DigitOf[Ch(s, Len(s))]

Unsigned(s) == IF s # "" /\ Ch(s, 1) \in {"+", "-"} THEN SubSeq(s, 2, Len(s)) ELSE s

Sign(s) == IF s # "" /\ Ch(s, 1) = "-" THEN -1 ELSE 1

ValueError(s) == [ok |-> FALSE, v |-> StrV(s)]

\* int() of a string without surrounding whitespace: an optional sign, then
\* digits; anything else is a ValueError (ok = FALSE)
IntOf(s) ==
    IF Unsigned(s) # "" /\ AllDigits(Unsigned(s))
    THEN [ok |-> TRUE, v |-> IntV(Sign(s) * DigitsVal(Unsigned(s)))]
    ELSE ValueError(s)

\* int(s)
PyInt(s) == IntOf(strip(s))

\* the float of sign, integer part ip and fraction fp
FloatOfParts(sign, ip, fp) ==
    IF AllDigits(ip) /\ AllDigits(fp) /\ (ip \o fp) # ""
    THEN [ok |-> TRUE, v |-> FloatV(sign * DigitsVal(ip \o fp), Len(fp))]
    ELSE ValueError(ip \o "." \o fp)

\* float() of a string without surrounding whitespace, for decimal
\* literals: [+-] digits [. digits] with a digit on at least one side of
\* the point; anything else is a ValueError.  Exponent, inf and nan forms
\* are never among the inputs drawn below.
FloatOf(s) ==
    IF contains(Unsigned(s), ".")
    THEN FloatOfParts(Sign(s), split1(Unsigned(s), ".")[1], split1(Unsigned(s), ".")[2])
    ELSE FloatOfParts(Sign(s), Unsigned(s), "")

\* float(s)
PyFloat(s) == FloatOf(strip(s))

\* int(x) of a number: truncation toward zero
TruncToInt(v) ==
    IF v.n >= 0 THEN IntV(v.n \div Pow10(v.e)) ELSE IntV(-((-v.n) \div Pow10(v.e)))

\* float(x) of a number
ToFloat(v) == FloatV(v.n, v.e)

\* the sign of x - y
Sgn(x, y) == IF x < y THEN -1 ELSE IF x = y THEN 0 ELSE 1

\* -1, 0, 1 as number a is below, equal to, above number b
NumCmp(a, b) == Sgn(a.n * Pow10(b.e), b.n * Pow10(a.e))

\* -1, 0, 1 as string a sorts before, equal to, after string b (by code point)
RECURSIVE StrCmp(_, _)
StrCmp(a, b) ==
    IF a = "" \/ b = "" THEN Sgn(Len(a), Len(b))
    ELSE IF Ch(a, 1) # Ch(b, 1) THEN Sgn(Ord(Ch(a, 1)), Ord(Ch(b, 1)))
    ELSE StrCmp(SubSeq(a, 2, Len(a)), SubSeq(b, 2, Len(b)))

(***************************************************************************)
(* Outcomes of an operation: the rows returned, or the exception raised.   *)
(* The engine raises Exception with a message that starts "Syntax Error:", *)
(* "Query Error:" or "Error" (loading); err names that prefix, msg the     *)
(* message and name the table, column or file the message quotes.  A       *)
(* comparison Python refuses raises TypeError.                             *)
(***************************************************************************)
Ok(rows) == [kind |-> "ok", err |-> "", msg |-> "", name |-> "", rows |-> rows]

Raise(err, msg, name) == [kind |-> "error", err |-> err, msg |-> msg, name |-> name, rows |-> <<>>]

(***************************************************************************)
(* The files load_csv can be asked to read.  A file is what csv.DictReader *)
(* makes of it: the header's field names and, per data row, its cells.     *)
(***************************************************************************)
SampleSize == 10

\* rows of the long files beyond the sampled ones
ExtraRows == 1

PeopleRows == << <<"Alice", "30", "2.5">>, <<" bob ", "25", "">>, <<" ", "", "7">> >>

LongRows(last) == [i \in 1..(SampleSize + ExtraRows) |-> IF i <= SampleSize THEN <<"1", "">> ELSE <<last, last>>]

FileSystem ==
    [f \in {"people.csv", "PEOPLE.CSV", "empty.csv", "bad.csv", "late.csv", "notes.txt"} |->
        CASE f = "people.csv" -> [fieldnames |-> <<"Name", "Age", "Score">>, rows |-> PeopleRows]
          [] f = "PEOPLE.CSV" -> [fieldnames |-> <<"NAME", "AGE", "SCORE">>, rows |-> PeopleRows]
          [] f = "empty.csv"  -> [fieldnames |-> <<"name", "age">>, rows |-> << >>]
          [] f = "bad.csv"    -> [fieldnames |-> <<"n", "m">>, rows |-> LongRows("x")]
          [] f = "late.csv"   -> [fieldnames |-> <<"N", "M">>, rows |-> LongRows("2.5")]
          [] f = "notes.txt"  -> [fieldnames |-> <<"name">>, rows |-> << <<"x">> >>]]

\* the file names load_csv is called with; "nofile.csv" does not exist
FileNames == DOMAIN FileSystem \cup {"nofile.csv"}

\* the table names load_csv is called with
LoadNames == {"t", "T", "u"}

(***************************************************************************)
(* load_csv and _cast_data_types                                           *)
(***************************************************************************)
EmptyStore == [n \in {} |-> 0]

\* the last position of fieldnames whose lowercased name is c
LastField(fieldnames, c) ==
    CHOOSE i \in 1..Len(fieldnames) :
        /\ lower(fieldnames[i]) = c
        /\ \A j \in (i + 1)..Len(fieldnames) : lower(fieldnames[j]) # c

\* {k.lower(): v for k, v in row.items()}: the row as a dict keyed by the
\* lowercased field names (the last of two colliding keys wins)
NormalizedRow(fieldnames, cells) ==
    [c \in {lower(fieldnames[i]) : i \in 1..Len(fieldnames)} |-> cells[LastField(fieldnames, c)]]

NormalizedRows(file) == [i \in 1..Len(file.rows) |-> NormalizedRow(file.fieldnames, file.rows[i])]

Columns(file) == [i \in 1..Len(file.fieldnames) |-> lower(file.fieldnames[i])]

Min(a, b) == IF a <= b THEN a ELSE b

\* the non-empty values of column col in the sampled rows
Sampled(rows, col) == {rows[i][col] : i \in 1..Min(SampleSize, Len(rows))} \ {""}

\* numeric_cols.get(col) from the two flags: "int", "float", or "str" when
\* the column is left out of numeric_cols
TypeOfFlags(is_int, is_float) ==
    IF is_int /\ ~is_float THEN "int"
    ELSE IF is_float THEN "float"
    ELSE "str"

\* the type _cast_data_types gives a column with these sampled values
TypeOfSample(sampled) ==
    TypeOfFlags(\A value \in sampled : PyInt(value).ok, \A value \in sampled : PyFloat(value).ok)

ColumnType(rows, col) == TypeOfSample(Sampled(rows, col))

\* numeric_cols[col](value), or value.strip() for the other cells
CastCell(type, value) ==
    IF type # "str" /\ value # ""
    THEN (IF type = "int" THEN PyInt(value) ELSE PyFloat(value))
    ELSE [ok |-> TRUE, v |-> StrV(strip(value))]

\* the rows with every cell cast, each with the flag of its cast
CastCells(rows, type) ==
    [i \in 1..Len(rows) |-> [c \in DOMAIN rows[i] |-> CastCell(type[c], rows[i][c])]]

\* casted_rows, or not ok when some cast raised ValueError
CastedRows(cast) ==
    IF \A i \in 1..Len(cast) : \A c \in DOMAIN cast[i] : cast[i][c].ok
    THEN [ok |-> TRUE, rows |-> [i \in 1..Len(cast) |-> [c \in DOMAIN cast[i] |-> cast[i][c].v]]]
    ELSE [ok |-> FALSE, rows |-> <<>>]

\* _cast_data_types(rows): ok with the cast rows, or not ok when a cast
\* raises ValueError
_cast_data_types(rows) ==
    IF rows = <<>> THEN [ok |-> TRUE, rows |-> <<>>]
    ELSE CastedRows(CastCells(rows, [c \in DOMAIN rows[1] |-> ColumnType(rows, c)]))

\* self.table_data[name] = table
Install(store, name, table) ==
    [n \in DOMAIN store \cup {name} |-> IF n = name THEN table ELSE store[n]]

\* the assignment to self.table_data as it would be if the table were entered
\* before its rows are cast
StoreCastedEarly(store, filename, normalized_table_name, columns, casted) ==
    IF ~casted.ok
    THEN [store  |-> Install(store, normalized_table_name, [columns |-> columns, rows |-> <<>>]),
          result |-> Raise("Error", "Error loading CSV", filename)]
    ELSE [store  |-> Install(store, normalized_table_name, [columns |-> columns, rows |-> casted.rows]),
          result |-> Ok(<<>>)]

\* self.table_data[normalized_table_name] = {columns, rows: casted rows}:
\* nothing is assigned when the cast raised
StoreCasted(store, filename, normalized_table_name, columns, casted) ==
    IF ~casted.ok
    THEN [store |-> store, result |-> Raise("Error", "Error loading CSV", filename)]
    ELSE [store  |-> Install(store, normalized_table_name, [columns |-> columns, rows |-> casted.rows]),
          result |-> Ok(<<>>)]

\* the body of load_csv's with block on the file read
LoadFile(store, filename, normalized_table_name, file) ==
    IF file.rows = <<>>
    THEN [store |-> store, result |-> Raise("Error", "empty or has no data rows", filename)]
    ELSE StoreCasted(store, filename, normalized_table_name, Columns(file),
                     _cast_data_types(NormalizedRows(file)))

\* load_csv(filename, table_name) on the store: the store afterwards and the
\* outcome
load_csv(store, filename, table_name) ==
    IF ~endswith(lower(filename), ".csv")
    THEN [store |-> store, result |-> Raise("Error", "must be a CSV file", filename)]
    ELSE IF filename \notin DOMAIN FileSystem
    THEN [store |-> store, result |-> Raise("Error", "File not found", filename)]
    ELSE LoadFile(store, filename, lower(table_name), FileSystem[filename])

(***************************************************************************)
(* parse_query                                                             *)
(***************************************************************************)
None == [t |-> "none", n |-> 0, e |-> 0, s |-> ""]

IsValueCh(c) == ~IsSpace(c) /\ ~IsQuote(c)

\* the length of the longest prefix of s made of \w characters
RECURSIVE wordlen(_)
wordlen(s) == IF s = "" \/ ~IsWord(Ch(s, 1)) THEN 0 ELSE 1 + wordlen(SubSeq(s, 2, Len(s)))

\* the length of the longest prefix of s made of [^\s"'] characters
RECURSIVE valuelen(_)
valuelen(s) == IF s = "" \/ ~IsValueCh(Ch(s, 1)) THEN 0 ELSE 1 + valuelen(SubSeq(s, 2, Len(s)))

\* the regular expression's operator alternatives, in the order it tries them
Operators == <<">=", "<=", "!=", "=", ">", "<">>

NoMatch == [ok |-> FALSE, col |-> "", op |-> "", raw_val |-> ""]

\* whether body matches  [^\s"']+[^\)]*["']?$  : a run of characters that
\* are neither whitespace nor quotes, and no ")" after the longest such run
BodyMatches(body) ==
    /\ valuelen(body) >= 1
    /\ \A p \in (valuelen(body) + 1)..Len(body) : Ch(body, p) # ")"

\* whether r matches  ["']?[^\s"']+[^\)]*["']?$
ValueMatches(r) ==
    BodyMatches(IF r # "" /\ IsQuote(Ch(r, 1)) THEN SubSeq(r, 2, Len(r)) ELSE r)

\* the text after operator op at the head of rest, leading whitespace skipped
AfterOp(rest, op) == lstrip(SubSeq(rest, Len(op) + 1, Len(rest)))

\* (>=|<=|!=|=|>|<)\s*(VALUE)$ on rest, from alternative j on: the first
\* alternative that lets the whole pattern match
RECURSIVE MatchOperator(_, _, _)
MatchOperator(col, rest, j) ==
    IF j > Len(Operators) THEN NoMatch
    ELSE IF startswith(rest, Operators[j]) /\ ValueMatches(AfterOp(rest, Operators[j]))
    THEN [ok |-> TRUE, col |-> col, op |-> Operators[j], raw_val |-> AfterOp(rest, Operators[j])]
    ELSE MatchOperator(col, rest, j + 1)

\* (\w+)\s*... on from, whose greedy \w+ takes k characters.  Giving a
\* character of the run back cannot help: the next thing matched would
\* have to be whitespace or an operator, and it would be a \w character.
MatchWord(from, k) ==
    IF k = 0 THEN NoMatch
    ELSE MatchOperator(SubSeq(from, 1, k), lstrip(SubSeq(from, k + 1, Len(from))), 1)

\* the match of  (\w+)\s*(>=|<=|!=|=|>|<)\s*(VALUE)$  that starts at position
\* i of s: its three groups, or ok = FALSE
MatchAt(s, i) == MatchWord(SubSeq(s, i, Len(s)), wordlen(SubSeq(s, i, Len(s))))

\* re.search from position i on: the match at the leftmost position that
\* has one
RECURSIVE SearchFrom(_, _)
SearchFrom(s, i) ==
    IF i > Len(s) THEN NoMatch
    ELSE IF MatchAt(s, i).ok THEN MatchAt(s, i)
    ELSE SearchFrom(s, i + 1)

\* re.search(pattern, s)
WhereSearch(s) == SearchFrom(s, 1)

\* value[1:-1] when value starts and ends with a quote
Unquote(value) ==
    IF IsQuote(Ch(value, 1)) /\ IsQuote(Ch(value, Len(value)))
    THEN SubSeq(value, 2, Len(value) - 1) ELSE value

\* whether value matches ^\d+\.\d+$, its first "." being at position dot
IsDecimal(value, dot) ==
    /\ dot > 1
    /\ dot < Len(value)
    /\ AllDigits(SubSeq(value, 1, dot - 1))
    /\ AllDigits(SubSeq(value, dot + 1, Len(value)))

\* an int for ^\d+$, a float for ^\d+\.\d+$, else the string
Literal(value) ==
    IF value # "" /\ AllDigits(value) THEN PyInt(value).v
    ELSE IF IsDecimal(value, find(value, ".")) THEN PyFloat(value).v
    ELSE StrV(value)

\* the value of a WHERE literal: stripped, quotes removed, then converted
WhereValue(raw_val) == Literal(Unquote(strip(raw_val)))

\* upper_query as it would be if the text were searched in its own case
UpperQueryKept(sql_query) == sql_query

\* upper_query = sql_query.upper(): every keyword search and every piece of
\* the parsed query is taken from this upper-cased copy
UpperQuery(sql_query) == upper(sql_query)

\* parse_query returning parsed_query
Return(parsed_query) == [ok |-> TRUE, error |-> Ok(<<>>), query |-> parsed_query]

\* parse_query raising Exception
Fail(err, msg, name) == [ok |-> FALSE, error |-> Raise(err, msg, name), query |-> None]

\* after re.search: the groups, the value and the column check
ParseMatch(parsed_query, match, columns) ==
    IF ~match.ok
    THEN Fail("Syntax Error", "Invalid WHERE clause format", "")
    ELSE IF lower(match.col) \notin Range(columns)
    THEN Fail("Query Error", "Column in WHERE clause does not exist", lower(match.col))
    ELSE Return([parsed_query EXCEPT
                    !.where = [column |-> lower(match.col), operator |-> match.op,
                               value |-> WhereValue(match.raw_val)]])

\* "3. Extract WHERE clause": if where_clause_str, which neither None nor ''
\* passes
ParseWhere(parsed_query, where_clause_str, columns) ==
    IF where_clause_str = "" THEN Return(parsed_query)
    ELSE ParseMatch(parsed_query, WhereSearch(where_clause_str), columns)

IsCount(select_clause) == startswith(select_clause, "COUNT(") /\ endswith(select_clause, ")")

\* [c.strip().lower() for c in parts]
StripLower(parts) == [i \in 1..Len(parts) |-> lower(strip(parts[i]))]

\* parsed_query['select_cols']
SelectCols(select_clause) ==
    IF IsCount(select_clause)
    THEN [func |-> "COUNT", target |-> lower(strip(SubSeq(select_clause, 7, Len(select_clause) - 1)))]
    ELSE StripLower(splitsep(select_clause, ","))

\* the table lookup and "2. Extract SELECT Columns/Function"
ParseSelect(select_clause, table_name, where_clause_str, store) ==
    IF table_name \notin DOMAIN store
    THEN Fail("Query Error", "Table has not been loaded", table_name)
    ELSE IF select_clause = ""
    THEN Fail("Syntax Error", "Missing columns/function in SELECT clause", "")
    ELSE ParseWhere([table |-> table_name, select_cols |-> SelectCols(select_clause),
                     where |-> None, is_aggregate |-> IsCount(select_clause)],
                    where_clause_str, store[table_name].columns)

\* the check of table_name_raw and table_name = table_name_raw.split()[0].lower()
ParseTable(select_clause, table_name_raw, where_clause_str, store) ==
    IF table_name_raw = "" \/ upper(splitws(table_name_raw)[1]) \in {"WHERE", "GROUP", "ORDER"}
    THEN Fail("Syntax Error", "Missing or invalid table name after FROM", "")
    ELSE ParseSelect(select_clause, lower(splitws(table_name_raw)[1]), where_clause_str, store)

\* the split of remaining_query at its first WHERE; where_clause_str is ""
\* for None, which the code treats like ''
ParseRemaining(select_clause, remaining_query, store) ==
    IF contains(remaining_query, "WHERE")
    THEN ParseTable(select_clause, strip(split1(remaining_query, "WHERE")[1]),
                    strip(split1(remaining_query, "WHERE")[2]), store)
    ELSE ParseTable(select_clause, strip(remaining_query), "", store)

\* select_clause and remaining_query from from_parts
ParseFromParts(from_parts, store) ==
    ParseRemaining(strip(remove1(from_parts[1], "SELECT")), strip(from_parts[2]), store)

\* "1. Extract FROM and Table Name"
ParseUpper(upper_query, store) ==
    IF ~contains(upper_query, "FROM")
    THEN Fail("Syntax Error", "Missing FROM clause", "")
    ELSE ParseFromParts(split1(upper_query, "FROM"), store)

\* parse_query(sql_query) against the store: ok with the parsed query, or
\* the exception raised
parse_query(sql_query, store) ==
    ParseUpper(UpperQuery(joinsp(splitws(strip(sql_query)))), store)

(***************************************************************************)
(* _evaluate_condition, _apply_filtering and execute_query                 *)
(***************************************************************************)
IsEmpty(v) == v = None \/ v = StrV("")

\* the conversion's result, v itself when it raised ValueError
OrKeep(converted, v) == IF converted.ok THEN converted.v ELSE v

\* type(target_val)(row_val) and type(row_val)(target_val): the conversion
\* of v to the type named, v itself when the conversion raises ValueError
Convert(type, v) ==
    IF type = "int"
    THEN (IF v.t = "str" THEN OrKeep(PyInt(v.s), v) ELSE TruncToInt(v))
    ELSE (IF v.t = "str" THEN OrKeep(PyFloat(v.s), v) ELSE ToFloat(v))

\* the row value after the "type mismatch" step
CoercedRowVal(row_val, target_val) ==
    IF IsNum(target_val) THEN Convert(target_val.t, row_val) ELSE row_val

\* the filter value after the "type mismatch" step
CoercedTargetVal(row_val, target_val) ==
    IF ~IsNum(target_val) /\ IsNum(row_val) /\ target_val.t = "str"
    THEN Convert(row_val.t, target_val) ELSE target_val

\* Python's a == b
PyEq(a, b) == IF IsNum(a) /\ IsNum(b) THEN NumCmp(a, b) = 0 ELSE a = b

\* Python's a > b, a < b, a >= b, a <= b: defined between two numbers and
\* between two strings, a TypeError otherwise
Comparable(a, b) == (IsNum(a) /\ IsNum(b)) \/ (a.t = "str" /\ b.t = "str")

Cmp(a, b) == IF IsNum(a) THEN NumCmp(a, b) ELSE StrCmp(a.s, b.s)

Value(b) == [raised |-> "", val |-> b]

\* the null branch as it would be if an empty value matched no condition
NullMatchNever(op, target_val) == FALSE

\* the answer for a row whose value is None or '': = matches an empty filter
\* value, != a non-empty one, the other operators nothing
NullMatch(op, target_val) ==
    IF op = "=" THEN IsEmpty(target_val)
    ELSE IF op = "!=" THEN ~IsEmpty(target_val)
    ELSE FALSE

\* "3. Comparison Logic" on the coerced values r and t
Compare(op, r, t) ==
    IF op = "="
    THEN (IF r.t = "str" /\ t.t = "str" THEN Value(lower(r.s) = lower(t.s)) ELSE Value(PyEq(r, t)))
    ELSE IF op = "!="
    THEN (IF r.t = "str" /\ t.t = "str" THEN Value(lower(r.s) # lower(t.s)) ELSE Value(~PyEq(r, t)))
    ELSE IF op \in {">", "<", ">=", "<="}
    THEN (IF ~Comparable(r, t) THEN [raised |-> "TypeError", val |-> FALSE]
          ELSE IF op = ">" THEN Value(Cmp(r, t) > 0)
          ELSE IF op = "<" THEN Value(Cmp(r, t) < 0)
          ELSE IF op = ">=" THEN Value(Cmp(r, t) >= 0)
          ELSE Value(Cmp(r, t) <= 0))
    ELSE [raised |-> "Unsupported operator", val |-> FALSE]

\* the null handling, the coercion and the comparison of row_val
EvaluateValue(op, row_val, target_val) ==
    IF IsEmpty(row_val)
    THEN Value(NullMatch(op, target_val))
    ELSE Compare(op, CoercedRowVal(row_val, target_val), CoercedTargetVal(row_val, target_val))

\* row.get(col)
Get(row, col) == IF col \in DOMAIN row THEN row[col] ELSE None

\* _evaluate_condition(row, where_clause): the boolean returned, or the
\* exception raised
_evaluate_condition(row, where_clause) ==
    EvaluateValue(where_clause.operator, Get(row, where_clause.column), where_clause.value)

\* the rows whose answer is True, in order, or the exception the first
\* failing comparison raises
RECURSIVE Filtered(_, _, _)
Filtered(rows, answers, i) ==
    IF i > Len(rows) THEN [raised |-> "", rows |-> <<>>]
    ELSE IF answers[i].raised # "" THEN [raised |-> answers[i].raised, rows |-> <<>>]
    ELSE IF Filtered(rows, answers, i + 1).raised # "" THEN Filtered(rows, answers, i + 1)
    ELSE [raised |-> "",
          rows |-> (IF answers[i].val THEN <<rows[i]>> ELSE <<>>) \o Filtered(rows, answers, i + 1).rows]

\* _apply_filtering(rows, where_clause)
_apply_filtering(rows, where_clause) ==
    IF where_clause = None THEN [raised |-> "", rows |-> rows]
    ELSE Filtered(rows, [i \in 1..Len(rows) |-> _evaluate_condition(rows[i], where_clause)], 1)

\* COUNT(col) as it would be if it counted rows without looking at col
CountedAlways(row, target) == TRUE

\* row.get(target) is not None and row.get(target) != ''
Counted(row, target) == target \in DOMAIN row /\ ~IsEmpty(row[target])

\* the COUNT branch of execute_query on the filtered rows
CountRows(current_rows, target) ==
    IF target = "*" THEN Len(current_rows)
    ELSE Cardinality({i \in 1..Len(current_rows) : Counted(current_rows[i], target)})

\* {col: row.get(col) for col in select_cols}
Project(row, select_cols) == [c \in Range(select_cols) |-> Get(row, c)]

\* the first of select_cols that is not a column, "" when all are
RECURSIVE FirstMissing(_, _, _)
FirstMissing(select_cols, columns, i) ==
    IF i > Len(select_cols) THEN ""
    ELSE IF select_cols[i] \notin Range(columns) THEN select_cols[i]
    ELSE FirstMissing(select_cols, columns, i + 1)

\* "B. Handle Aggregation (COUNT)"
Aggregate(select_cols, columns, current_rows) ==
    IF select_cols.target # "*" /\ select_cols.target \notin Range(columns)
    THEN Raise("Query Error", "Column in COUNT() does not exist", select_cols.target)
    ELSE Ok(<< [c \in {"COUNT"} |-> IntV(CountRows(current_rows, select_cols.target))] >>)

\* "C. Handle Projection (SELECT columns)"
Projection(select_cols, columns, current_rows) ==
    IF select_cols = <<"*">> THEN Ok(current_rows)
    ELSE IF \E i \in 1..Len(select_cols) : select_cols[i] \notin Range(columns)
    THEN Raise("Query Error", "Column in SELECT clause does not exist",
               FirstMissing(select_cols, columns, 1))
    ELSE Ok([i \in 1..Len(current_rows) |-> Project(current_rows[i], select_cols)])

\* execute_query after "A. Apply Filtering (WHERE)"
ExecuteFiltered(parsed_query, columns, filtered) ==
    IF filtered.raised # "" THEN Raise(filtered.raised, "comparison", "")
    ELSE IF parsed_query.is_aggregate
    THEN Aggregate(parsed_query.select_cols, columns, filtered.rows)
    ELSE Projection(parsed_query.select_cols, columns, filtered.rows)

\* execute_query on the table the parsed query names
ExecuteOn(parsed_query, table) ==
    ExecuteFiltered(parsed_query, table.columns, _apply_filtering(table.rows, parsed_query.where))

\* execute_query after parse_query
ExecuteParsed(parsed, store) ==
    IF ~parsed.ok THEN parsed.error ELSE ExecuteOn(parsed.query, store[parsed.query.table])

\* execute_query(sql_query) against the store: the result rows, or the
\* exception raised
execute_query(sql_query, store) == ExecuteParsed(parse_query(sql_query, store), store)

(***************************************************************************)
(* The query texts execute_query is called with.  A text is written from   *)
(* its pieces: the projection, the table, the WHERE condition (column,     *)
(* operator, literal), the letter case given to keywords and identifiers,  *)
(* and the number of blanks between words.  The literal is always left as  *)
(* typed.                                                                  *)
(***************************************************************************)
\* blanks between the words of the padded queries
MaxPad == 2

Styles == {"asis", "lower", "upper"}

Cased(s, style) == IF style = "upper" THEN upper(s) ELSE IF style = "lower" THEN lower(s) ELSE s

RECURSIVE Blanks(_)
Blanks(k) == IF k = 0 THEN "" ELSE " " \o Blanks(k - 1)

NoWhere == [kind |-> "none", col |-> "", op |-> "", lit |-> ""]

BareWhere == [kind |-> "bare", col |-> "", op |-> "", lit |-> ""]

Cond(col, op, lit) == [kind |-> "cond", col |-> col, op |-> op, lit |-> lit]

Render(q) ==
    LET sp == Blanks(q.pad)
        where == IF q.where.kind = "none" THEN ""
                 ELSE IF q.where.kind = "bare" THEN sp \o Cased("Where", q.style)
                 ELSE sp \o Cased("Where", q.style) \o sp \o Cased(q.where.col, q.style)
                      \o (IF q.where.op = "" THEN "" ELSE sp \o q.where.op \o sp \o q.where.lit)
    IN  Cased("Select", q.style)
        \o (IF q.proj = "" THEN "" ELSE sp \o Cased(q.proj, q.style))
        \o (IF q.from THEN sp \o Cased("From", q.style) ELSE "")
        \o (IF q.table = "" THEN "" ELSE sp \o Cased(q.table, q.style))
        \o where

Projections ==
    {"*", "Name", "Name, Age", "Count(*)", "Count(Score)", "Count( Age )", "Missing",
     "Count(Missing)", "Name, Missing", "Fromage", ""}

Conditions ==
    {Cond("Age", ">", "26"), Cond("Score", ">", "2"), Cond("Score", "=", "2"),
     Cond("Score", "<=", "2.5"), Cond("Score", "!=", "7"), Cond("Age", ">=", "25"),
     Cond("Age", "<", "30.0"), Cond("Name", "=", "'alice'"), Cond("Name", "!=", "\"Bob\""),
     Cond("Name", ">", "'bob'"), Cond("Name", "<=", "Bob"), Cond("Name", ">", "5"),
     Cond("Age", "=", ".5"), Cond("Age", "=", "x1"), Cond("Age", ">", "abc"),
     Cond("Missing", "=", "1"), Cond("Age", "", ""), Cond("Age", "=", "''"),
     Cond("M", "!=", "1"), Cond("M", "=", "2.5")}

Shape(proj, table, from, where) ==
    [proj |-> proj, table |-> table, from |-> from, where |-> where]

QueryShapes ==
    {Shape(p, "T", TRUE, NoWhere) : p \in Projections}
    \cup {Shape(p, "T", TRUE, w) :
            p \in {"Missing", "Count(Missing)", "Name, Missing"},
            w \in {BareWhere, Cond("Age", ">", "26"), Cond("Name", ">", "5")}}
    \cup {Shape(p, "T", TRUE, BareWhere) : p \in {"*", "Count(*)"}}
    \cup {Shape("*", "T", TRUE, w) : w \in Conditions}
    \cup {Shape(p, "T", TRUE, w) :
            p \in {"Count(*)", "Count(Score)"},
            w \in {Cond("Age", ">", "26"), Cond("Score", ">", "2"), Cond("Score", "!=", "7"),
                   Cond("Name", "=", "'alice'"), Cond("M", "!=", "1")}}
    \cup {Shape("*", t, TRUE, w) : t \in {"U", "Nosuch", ""}, w \in {NoWhere, Cond("Age", ">", "26")}}
    \cup {Shape(p, "", FALSE, NoWhere) : p \in {"*", "Name", "Fromage", "Name, Fromage"}}

\* the shapes also written in lower and in upper case
CasedShapes ==
    {Shape(p, "T", TRUE, w) :
        p \in {"Name", "Count(Score)"},
        w \in {NoWhere, Cond("Age", ">", "26"), Cond("Name", ">", "'bob'"), Cond("Name", "=", "'alice'")}}
    \cup {Shape("Missing", "T", TRUE, NoWhere), Shape("*", "Nosuch", TRUE, NoWhere)}

\* the shapes also written with more blanks between their words
PaddedShapes ==
    {Shape("Name, Age", "T", TRUE, Cond("Age", ">", "26")), Shape("Count(*)", "T", TRUE, NoWhere)}

WithStyle(shape, style, pad) ==
    [proj |-> shape.proj, table |-> shape.table, from |-> shape.from, where |-> shape.where,
     style |-> style, pad |-> pad]

Queries ==
    {WithStyle(sh, "asis", 1) : sh \in QueryShapes}
    \cup {WithStyle(sh, st, 1) : sh \in CasedShapes, st \in Styles}
    \cup {WithStyle(sh, "asis", k) : sh \in PaddedShapes, k \in 2..MaxPad}

(***************************************************************************)
(* The engine as cli.main drives it: one load or one query at a time.  out *)
(* is the last operation and its outcome.                                  *)
(***************************************************************************)
Init ==
    /\ table_data = EmptyStore
    /\ out = [op |-> "init"]

\* the LOAD command, r being what load_csv did
Loaded(filename, table_name, r) ==
    /\ table_data' = r.store
    /\ out' = [op |-> "load", filename |-> filename, table_name |-> table_name,
               result |-> r.result]

Load ==
    \E filename \in FileNames, table_name \in LoadNames :
        Loaded(filename, table_name, load_csv(table_data, filename, table_name))

\* the SELECT command on the text sql of q
Queried(q, sql) ==
    /\ out' = [op |-> "query", q |-> q, sql |-> sql, result |-> execute_query(sql, table_data)]
    /\ UNCHANGED table_data

Query == \E q \in Queries : Queried(q, Render(q))

Next == Load \/ Query

Spec == Init /\ [][Next]_vars

(***************************************************************************)
(* Properties.  Each is stated on the last operation and its outcome.      *)
(***************************************************************************)
IsQuery == out.op = "query"

IsLoad == out.op = "load"

\* the parse of the last query
Parsed == parse_query(out.sql, table_data)

\* the table the last query was parsed to read
QueriedTable == table_data[Parsed.query.table]

\* the table the last load stored
LoadedTable == table_data[lower(out.table_name)]

\* the columns of a file, lowercased, and the raw cell of row i under column c
FileColumns(file) == {lower(file.fieldnames[j]) : j \in 1..Len(file.fieldnames)}

RawCell(file, i, c) == NormalizedRow(file.fieldnames, file.rows[i])[c]

\* a literal without its surrounding quotes
Unquoted(lit) ==
    IF Len(lit) >= 2 /\ IsQuote(Ch(lit, 1)) /\ IsQuote(Ch(lit, Len(lit)))
    THEN SubSeq(lit, 2, Len(lit) - 1) ELSE lit

----------------------------------------------------------------------------
\* the type the sampled values call for: Integer when all parse as integers,
\* else Float when all parse as floats, else String
InferredType(file, c) ==
    LET sampled == {RawCell(file, i, c) : i \in 1..Min(SampleSize, Len(file.rows))} \ {""}
    IN  IF \A v \in sampled : PyInt(v).ok THEN "int"
        ELSE IF \A v \in sampled : PyFloat(v).ok THEN "float"
        ELSE "str"

\* C1: a loaded column is Integer when every sampled non-empty value parses
\* as an integer, otherwise Float when every one parses as a float, otherwise
\* String, and every non-empty value of the column is stored with that type;
\* so WHERE age > 26 over the ages "30" and "25" returns the age as an Integer.
C1_InferredTypeStored ==
    /\ (IsLoad /\ out.result.kind = "ok") =>
          LET file == FileSystem[out.filename]
          IN  \A c \in FileColumns(file) : \A i \in 1..Len(file.rows) :
                  RawCell(file, i, c) # "" => LoadedTable.rows[i][c].t = InferredType(file, c)
    /\ (IsQuery /\ out.result.kind = "ok" /\ out.q.proj = "*" /\ out.q.where = Cond("Age", ">", "26")) =>
          \A i \in 1..Len(out.result.rows) : out.result.rows[i]["age"].t = "int"

----------------------------------------------------------------------------
\* the columns a projection text names
ProjectionNames(proj) ==
    LET parts == splitsep(proj, ",")
    IN  IF startswith(proj, "Count(")
        THEN {lower(strip(SubSeq(proj, 7, Len(proj) - 1)))} \ {"*"}
        ELSE IF parts = <<"*">> THEN {}
        ELSE {lower(strip(parts[i])) : i \in 1..Len(parts)}

\* a query with FROM, a table, a projection and, if any, a WHERE condition
\* of the form column operator value
WellFormed(q) ==
    /\ q.from /\ q.table # "" /\ q.proj # "" /\ ~contains(upper(q.proj), "FROM")
    /\ \/ q.where.kind = "none"
       \/ q.where.kind = "cond" /\ q.where.op # "" /\ Unquoted(q.where.lit) # ""

\* the names of the query that the store does not hold
Offending(q, store) ==
    IF lower(q.table) \notin DOMAIN store THEN {lower(q.table)}
    ELSE (ProjectionNames(q.proj) \cup (IF q.where.kind = "cond" THEN {lower(q.where.col)} ELSE {}))
         \ Range(store[lower(q.table)].columns)

\* C2: a query that names a table not in the store, or a projection column,
\* COUNT target or WHERE column not in the table, fails with a Query Error that
\* names an offending table or column and returns no rows, with or without a
\* WHERE clause and whatever the rows are.
C2_UnknownNameIsQueryError ==
    (IsQuery /\ WellFormed(out.q) /\ Offending(out.q, table_data) # {}) =>
        /\ out.result.kind = "error"
        /\ out.result.err = "Query Error"
        /\ out.result.name \in Offending(out.q, table_data)
        /\ out.result.rows = <<>>

----------------------------------------------------------------------------
\* the rows of the queried table that pass the parsed filter
PassingRows ==
    {i \in 1..Len(QueriedTable.rows) :
        Parsed.query.where = None \/ _evaluate_condition(QueriedTable.rows[i], Parsed.query.where).val}

\* C3: a COUNT query returns exactly one row {COUNT: n}; for COUNT(*) n is the
\* number of rows that pass the filter (all rows of the table without WHERE),
\* for COUNT(col) the number of passing rows whose col is neither null nor
\* empty, so COUNT(col) <= COUNT(*).
C3_Count ==
    (IsQuery /\ out.result.kind = "ok" /\ Parsed.query.is_aggregate) =>
        LET target == Parsed.query.select_cols.target
            n == IF target = "*" THEN Cardinality(PassingRows)
                 ELSE Cardinality({i \in PassingRows : QueriedTable.rows[i][target] \notin {None, StrV("")}})
        IN  /\ out.result.rows = << [c \in {"COUNT"} |-> IntV(n)] >>
            /\ n <= Cardinality(PassingRows)
            /\ (out.q.where.kind = "none" /\ target = "*") => n = Len(QueriedTable.rows)

C3_Witness ==
    /\ IsQuery /\ out.result.kind = "ok"
    /\ out.q.proj = "Count(Score)" /\ out.q.where = Cond("Score", "!=", "7")
    /\ out.result.rows = << [c \in {"COUNT"} |-> IntV(1)] >>
    /\ Cardinality(PassingRows) = 2

----------------------------------------------------------------------------
\* the table a file holds, complete: its columns and every one of its rows
CompleteTable(file) ==
    [columns |-> [j \in 1..Len(file.fieldnames) |-> lower(file.fieldnames[j])],
     rows |-> _cast_data_types([i \in 1..Len(file.rows) |-> NormalizedRow(file.fieldnames, file.rows[i])]).rows]

\* a file whose load must fail: missing, without data rows, or with a value
\* that cannot be cast to the type of its column
Unloadable(filename) ==
    \/ filename \notin DOMAIN FileSystem
    \/ FileSystem[filename].rows = <<>>
    \/ LET file == FileSystem[filename]
           rows == [i \in 1..Len(file.rows) |-> NormalizedRow(file.fieldnames, file.rows[i])]
       IN  \E i \in 1..Len(rows) : \E c \in DOMAIN rows[i] : ~CastCell(ColumnType(rows, c), rows[i][c]).ok

\* C4: a load that fails installs nothing and changes no table, also not the
\* one stored under its own name; a load that succeeds stores the complete
\* table under the lowercased name and changes no other; a query, failed or
\* not, changes nothing.  So each name holds the table of its last
\* successful load.
C4_StoreFrame ==
    [][ /\ out'.op = "query" => table_data' = table_data
        /\ out'.op = "load" =>
             /\ Unloadable(out'.filename) => out'.result.kind = "error"
             /\ out'.result.kind = "error" => table_data' = table_data
             /\ out'.result.kind = "ok" =>
                  /\ DOMAIN table_data' = DOMAIN table_data \cup {lower(out'.table_name)}
                  /\ \A n \in DOMAIN table_data : n # lower(out'.table_name) => table_data'[n] = table_data[n]
                  /\ table_data'[lower(out'.table_name)] = CompleteTable(FileSystem[out'.filename]) ]_vars

C4_Witness ==
    /\ IsLoad /\ out.result.kind = "error" /\ out.filename = "bad.csv"
    /\ DOMAIN table_data = {"t", "u"}
    /\ lower(out.table_name) = "t"
    /\ table_data["t"] = CompleteTable(FileSystem["late.csv"])
    /\ table_data["u"] = CompleteTable(FileSystem["people.csv"])

----------------------------------------------------------------------------
\* the last query written with its keywords and identifiers in another case
Recased(style) == Render([out.q EXCEPT !.style = style])

\* C5: the result of a query does not depend on the letter case of its
\* keywords, table name and column names, nor on the case the table and its
\* headers were loaded with: stored names are lowercase, and the query in
\* lower or upper case returns the same rows or the same error.
C5_CaseInsensitive ==
    /\ \A n \in DOMAIN table_data :
          /\ n = lower(n)
          /\ \A j \in 1..Len(table_data[n].columns) : table_data[n].columns[j] = lower(table_data[n].columns[j])
          /\ \A i \in 1..Len(table_data[n].rows) : DOMAIN table_data[n].rows[i] = Range(table_data[n].columns)
    /\ (IsLoad /\ out.result.kind = "ok" /\ out.filename \in {"people.csv", "PEOPLE.CSV"}) =>
          LoadedTable = CompleteTable(FileSystem["people.csv"])
    /\ IsQuery => \A style \in {"lower", "upper"} : out.result = execute_query(Recased(style), table_data)

C5_Witness ==
    /\ IsQuery /\ out.q.style = "upper" /\ out.sql = "SELECT NAME FROM T WHERE NAME = 'alice'"
    /\ out.result.kind = "ok" /\ Len(out.result.rows) = 1
    /\ out.result = execute_query("select name from t where name = 'alice'", table_data)

----------------------------------------------------------------------------
\* C6: a query with the WHERE keyword after its table is parsed to a query
\* with a filter, or its parse fails; it is never parsed to a query without a
\* filter, so it never returns the unfiltered rows.
C6_WhereAlwaysFilters ==
    (IsQuery /\ out.q.from /\ out.q.where.kind # "none" /\ Parsed.ok) => Parsed.query.where # None

----------------------------------------------------------------------------
\* C7: a query text in which FROM is not a keyword fails with a Syntax Error,
\* whatever the store holds and whatever identifiers it names: letters "from"
\* inside an identifier are not the keyword.
C7_NoFromIsSyntaxError ==
    (IsQuery /\ ~out.q.from) => (out.result.kind = "error" /\ out.result.err = "Syntax Error")

----------------------------------------------------------------------------
\* whether number x stands in relation op to number v
NumHolds(x, op, v) ==
    CASE op = "="  -> NumCmp(x, v) = 0
      [] op = "!=" -> NumCmp(x, v) # 0
      [] op = ">"  -> NumCmp(x, v) > 0
      [] op = "<"  -> NumCmp(x, v) < 0
      [] op = ">=" -> NumCmp(x, v) >= 0
      [] op = "<=" -> NumCmp(x, v) <= 0

\* C8: for a stored number x and a numeric filter value v, the row matches
\* col op v exactly when x op v holds of the numbers, also for a Float x and
\* an Integer v.
C8_NumericComparison ==
    (IsQuery /\ Parsed.ok /\ Parsed.query.where # None /\ IsNum(Parsed.query.where.value)) =>
        \A i \in 1..Len(QueriedTable.rows) :
            LET w == Parsed.query.where
                x == QueriedTable.rows[i][w.column]
            IN  IsNum(x) => _evaluate_condition(QueriedTable.rows[i], w) = Value(NumHolds(x, w.operator, w.value))

----------------------------------------------------------------------------
\* C9: an empty cell is stored as the empty string in a column of any type,
\* and a row whose filter column is empty matches = only for an empty filter
\* value, != only for a non-empty one, and never > < >= <=; with SELECT * the
\* row is returned exactly in those cases.
C9_NullRows ==
    /\ (IsLoad /\ out.result.kind = "ok") =>
          LET file == FileSystem[out.filename]
          IN  \A c \in FileColumns(file) : \A i \in 1..Len(file.rows) :
                  RawCell(file, i, c) = "" => LoadedTable.rows[i][c] = StrV("")
    /\ (IsQuery /\ Parsed.ok /\ Parsed.query.where # None) =>
          \A i \in 1..Len(QueriedTable.rows) :
              LET w   == Parsed.query.where
                  row == QueriedTable.rows[i]
                  matches == \/ w.operator = "=" /\ w.value \in {None, StrV("")}
                             \/ w.operator = "!=" /\ w.value \notin {None, StrV("")}
              IN  row[w.column] \in {None, StrV("")} =>
                     /\ _evaluate_condition(row, w) = Value(matches)
                     /\ (out.result.kind = "ok" /\ out.q.proj = "*") => (matches <=> row \in Range(out.result.rows))

C9_Witness ==
    /\ IsQuery /\ out.result.kind = "ok" /\ out.q.proj = "*" /\ out.q.where = Cond("Score", "!=", "7")
    /\ \E i \in 1..Len(QueriedTable.rows) :
          /\ QueriedTable.rows[i]["score"] = StrV("")
          /\ QueriedTable.rows[1]["score"].t = "float"
          /\ QueriedTable.rows[i] \in Range(out.result.rows)

----------------------------------------------------------------------------
\* C10: the parsed filter value of a string literal is the literal as typed
\* in the query, quotes removed, in its own letter case.
C10_LiteralCaseKept ==
    (IsQuery /\ out.q.where.kind = "cond" /\ Parsed.ok /\ Parsed.query.where # None
        /\ Parsed.query.where.value.t = "str") =>
        Parsed.query.where.value.s = Unquoted(out.q.where.lit)

====
